---- MODULE Spec2Model ----
(***************************************************************************)
(* Model of CanonicalParser (src/src/parsers/canonical.parser.ts): the     *)
(* canonicalization pass that lowers a Jabuti contract syntax tree into    *)
(* the canonical Contract value.                                           *)
(*                                                                         *)
(* Texts are sequences of one-character strings, so that concatenation,    *)
(* capitalisation, lower-casing and the decimal rendering of the term      *)
(* index are computed character by character, as the template literals of  *)
(* the source compute them.                                                *)
(*                                                                         *)
(* A call of parse() is a process: call[c].pc is its position in the       *)
(* nested forEach loops and the other fields of call[c] are the locals of  *)
(* parse().  The syntax tree is supplied node by node: each action visits  *)
(* the next child the loop would reach, and tree[c] records the nodes      *)
(* visited so far, i.e. the input of the call.                             *)
(*                                                                         *)
(* The module also models the generated sample chaincode                   *)
(* (discount-coupon-late-delivery): the transactions Init, Sign and        *)
(* ClauseRightRequestDelivery on the ledger of a channel.                  *)
(***************************************************************************)
EXTENDS Integers, Sequences, FiniteSets, TLC

\* call[c]: the locals of call c of parse() and its position pc; tree[c]: the
\* nodes call c has visited; overlapped[c]: another call was in progress at
\* some step of call c
VARIABLES call, tree, overlapped

\* the generated sample chaincode: ledger is the world state of the channel (the
\* marshalled asset under each asset id), now is the current time, reply is
\* what the last transaction returned
VARIABLES ledger, now, reply

vars == <<call, tree, overlapped, ledger, now, reply>>

----------------------------------------------------------------------------
(* Bounds of the model.                                                    *)

\* nodes visited by one call under Spec
MaxNodes == 4
\* term operations (Timeout, MessageContent) visited by one call under Spec
MaxOps == 2
\* term operations of the single clause lowered under SpecLong
MaxLongOps == 12
\* clause nodes and term operations visited by the call under SpecMix
MaxMixNodes == 5
\* the last instant of the clock under SpecChaincode
MaxTime == 2
\* requests recorded on an asset under SpecChaincode
MaxRequests == 1
\* concurrent calls under SpecPar
NPar == 2
\* nodes visited by one call under SpecPar
MaxParNodes == 3

----------------------------------------------------------------------------
(* Characters and texts.                                                   *)

LowerChars == <<"a","b","c","d","e","f","g","h","i","j","k","l","m",
                "n","o","p","q","r","s","t","u","v","w","x","y","z">>
UpperChars == <<"A","B","C","D","E","F","G","H","I","J","K","L","M",
                "N","O","P","Q","R","S","T","U","V","W","X","Y","Z">>
DigitChars == <<"0","1","2","3","4","5","6","7","8","9">>

Range(s) == { s[i] : i \in DOMAIN s }

ToUpperChar(ch) ==
  IF \E i \in DOMAIN LowerChars : LowerChars[i] = ch
  THEN UpperChars[CHOOSE i \in DOMAIN LowerChars : LowerChars[i] = ch]
  ELSE ch

ToLowerChar(ch) ==
  IF \E i \in DOMAIN UpperChars : UpperChars[i] = ch
  THEN LowerChars[CHOOSE i \in DOMAIN UpperChars : UpperChars[i] = ch]
  ELSE ch

\* capitalizeFirst of ../utils: the first character upper-cased, the rest kept
capitalizeFirst(s) ==
  IF s = <<>> THEN <<>> ELSE <<ToUpperChar(Head(s))>> \o Tail(s)

\* String.prototype.toLocaleLowerCase
toLocaleLowerCase(s) == [i \in DOMAIN s |-> ToLowerChar(s[i])]

\* the decimal rendering `${n}` of a non-negative integer
RECURSIVE NumberToText(_)
NumberToText(n) ==
  IF n < 10 THEN <<DigitChars[n + 1]>>
  ELSE NumberToText(n \div 10) \o <<DigitChars[(n % 10) + 1]>>

\* String.prototype.startsWith('"')
StartsWithQuote(s) == s # <<>> /\ Head(s) = "\""

\* digits with at most one decimal point and at least one digit
IsDecimal(s) ==
  /\ \E i \in DOMAIN s : s[i] \in Range(DigitChars)
  /\ \A i \in DOMAIN s : s[i] \in Range(DigitChars) \cup {"."}
  /\ Cardinality({ i \in DOMAIN s : s[i] = "." }) <= 1

TxtInfinity == <<"I","n","f","i","n","i","t","y">>

\* !isNaN(Number(text)) on texts without white space, exponent or radix
\* prefix: the empty text converts to 0, a signed decimal literal and a signed
\* Infinity convert to a number, every other text converts to NaN.
IsNumericText(s) ==
  LET body == IF s # <<>> /\ Head(s) \in {"+", "-"} THEN Tail(s) ELSE s
  IN  \/ s = <<>>
      \/ IsDecimal(body)
      \/ body = TxtInfinity

TxtEmpty == <<>>
TxtTimeout == <<"t","i","m","e","o","u","t">>
TxtMessageContentLower == <<"m","e","s","s","a","g","e","C","o","n","t","e","n","t">>
TxtMessageContentUpper == <<"M","e","s","s","a","g","e","C","o","n","t","e","n","t">>
TxtUnderscore == <<"_">>

----------------------------------------------------------------------------
(* Syntax tree access.                                                     *)

\* the value of an absent optional (JavaScript undefined)
Undefined == <<"undefined">>

\* the children of a node: absent (children undefined) or a sequence of texts
NoChildren == [defined |-> FALSE, kids |-> <<>>]
Children(ks) == [defined |-> TRUE, kids |-> ks]

\* node.children?.[k].text raises a TypeError: children exist, child k does not
ChildThrows(ch, k) == ch.defined /\ Len(ch.kids) < k + 1

\* node.children?.[k].text, k counted from 0, where it does not throw
ChildText(ch, k) == IF ch.defined THEN ch.kids[k + 1] ELSE Undefined

\* value ?? ''
OrEmpty(v) == IF v = Undefined THEN TxtEmpty ELSE v

----------------------------------------------------------------------------
(* Identifier names.                                                       *)

\* the name of a clause, from its kind and its local name
ClauseName(clauseType, name) ==
  [pascal |-> capitalizeFirst(clauseType) \o capitalizeFirst(name),
   camel  |-> toLocaleLowerCase(clauseType) \o capitalizeFirst(name),
   snake  |-> clauseType \o TxtUnderscore \o name]

\* the name of a term, from the clause name, the term type and the term index
TermName(clauseName, termType, termIndex) ==
  [pascal |-> clauseName.pascal \o capitalizeFirst(termType) \o NumberToText(termIndex),
   camel  |-> clauseName.camel \o capitalizeFirst(termType) \o NumberToText(termIndex),
   snake  |-> clauseName.snake \o TxtUnderscore \o termType
                \o TxtUnderscore \o NumberToText(termIndex)]

\* the presence-check Variable of term index
PresenceName(index) ==
  [pascal |-> TxtMessageContentUpper \o NumberToText(index),
   camel  |-> TxtMessageContentLower \o NumberToText(index),
   snake  |-> TxtMessageContentLower \o TxtUnderscore \o NumberToText(index)]

\* the anonymous Variable of term index in operand slot 1 (left) or 2 (right)
AnonymousName(index, slot) ==
  [pascal |-> TxtMessageContentUpper \o NumberToText(index) \o NumberToText(slot),
   camel  |-> TxtMessageContentLower \o NumberToText(index) \o NumberToText(slot),
   snake  |-> TxtMessageContentLower \o TxtUnderscore \o NumberToText(index)
                \o TxtUnderscore \o NumberToText(slot)]

\* the Variable of an operand that is a variable reference
ReferenceName(text) ==
  [pascal |-> capitalizeFirst(text), camel |-> text, snake |-> text]

----------------------------------------------------------------------------
(* parseMessageContent.                                                    *)

\* an element of the returned array: a string, or a Variable object
StringItem(text) == [text |-> text]
VariableItem(name, type) == [name |-> name, type |-> type]
\* typeof p !== 'number' && typeof p !== 'string' && p
IsVariable(p) == "name" \in DOMAIN p

\* the type of both operands of a binary comparison
InferTypeEqOnly(comparator) ==
  IF comparator = <<"=", "=">> THEN "TEXT" ELSE "NUMBER"
InferType(comparator) ==
  IF comparator \in { <<"=", "=">>, <<"!", "=">> } THEN "TEXT" ELSE "NUMBER"

\* one operand of a binary comparison; value is the child at the operand's
\* position, absent when the node has too few children
OperandIndexedReference(ch, k, index, slot, type) ==
  IF Len(ch.kids) >= k + 1 /\ IsNumericText(ch.kids[k + 1])
  THEN StringItem(ch.kids[k + 1])
  ELSE IF Len(ch.kids) >= k + 1 /\ ~StartsWithQuote(ch.kids[k + 1])
  THEN VariableItem(ReferenceName(ch.kids[k + 1] \o NumberToText(index)
                                    \o NumberToText(slot)), type)
  ELSE VariableItem(AnonymousName(index, slot), type)
Operand(ch, k, index, slot, type) ==
  IF Len(ch.kids) >= k + 1 /\ IsNumericText(ch.kids[k + 1])
  THEN StringItem(ch.kids[k + 1])
  ELSE IF Len(ch.kids) >= k + 1 /\ ~StartsWithQuote(ch.kids[k + 1])
  THEN VariableItem(ReferenceName(ch.kids[k + 1]), type)
  ELSE VariableItem(AnonymousName(index, slot), type)

\* parseMessageContent raises a TypeError reading the comparator
parseMessageContentThrows(ch) == Len(ch.kids) # 4 /\ ChildThrows(ch, 3)

\* parseMessageContent(term, index), where it does not throw
parseMessageContent(ch, index) ==
  IF Len(ch.kids) = 4
  THEN << VariableItem(PresenceName(index), "boolean") >>
  ELSE LET comparator == ChildText(ch, 3)
           type == InferType(comparator)
       IN  << Operand(ch, 2, index, 1, type),
              StringItem(comparator),
              Operand(ch, 4, index, 2, type) >>

----------------------------------------------------------------------------
(* The locals of one clause's lowering.                                    *)

\* the variable record (a JavaScript object with string keys that are never
\* integer-like): entries in insertion order
MapHas(m, k) == \E i \in DOMAIN m : m[i].key = k
\* variables = { ...variables, ...{ [key]: value } }
MapPutAppendOnly(m, k, v) == Append(m, [key |-> k, value |-> v])
MapPutMoveToEnd(m, k, v) ==
  Append(SelectSeq(m, LAMBDA e : e.key # k), [key |-> k, value |-> v])
MapPut(m, k, v) ==
  IF MapHas(m, k)
  THEN [i \in DOMAIN m |-> IF m[i].key = k THEN [key |-> k, value |-> v] ELSE m[i]]
  ELSE Append(m, [key |-> k, value |-> v])
\* Object.values(variables)
MapValues(m) == [i \in DOMAIN m |-> m[i].value]

\* the merge of one element of the analyzer's result into the variable record
MergeParameter(m, p) == IF IsVariable(p) THEN MapPut(m, p.name.camel, p) ELSE m

\* the locals while no clause is being lowered
NoClause == [clauseType |-> TxtEmpty, clauseName |-> ClauseName(TxtEmpty, TxtEmpty),
             rolePlayer |-> Undefined, operation |-> Undefined, terms |-> <<>>,
             variables |-> <<>>, messages |-> [error |-> TxtEmpty, success |-> TxtEmpty],
             termIndex |-> 0]

\* the first value of the term counter of a clause
GlobalTermCounter(c) ==
  LET Ops(d) == { i \in DOMAIN tree[d] : tree[d][i].kind \in {"timeout", "messageContent"} }
      RECURSIVE Sum(_)
      Sum(ds) == IF ds = {} THEN 0
                 ELSE LET d == CHOOSE d \in ds : TRUE
                      IN  Cardinality(Ops(d)) + Sum(ds \ {d})
  IN  Sum(DOMAIN tree)
InitialTermIndex(c) == 0

\* the locals at the start of a clause's lowering
NewClauseSharedVariables(c, clauseType, name, role) ==
  LET others == { d \in DOMAIN call : d # c /\ call[d].pc = "clause" }
  IN  [clauseType |-> clauseType, clauseName |-> ClauseName(clauseType, name),
       rolePlayer |-> role, operation |-> role, terms |-> <<>>,
       variables |-> IF others = {} THEN <<>>
                     ELSE call[CHOOSE d \in others : TRUE].cur.variables,
       messages |-> [error |-> TxtEmpty, success |-> TxtEmpty],
       termIndex |-> 0]
NewClause(c, clauseType, name, role) ==
  [clauseType |-> clauseType, clauseName |-> ClauseName(clauseType, name),
   rolePlayer |-> role, operation |-> role, terms |-> <<>>, variables |-> <<>>,
   messages |-> [error |-> TxtEmpty, success |-> TxtEmpty],
   termIndex |-> InitialTermIndex(c)]

\* the counter after a Timeout term
TimeoutKeepsIndex(termIndex) == termIndex
TimeoutNextIndex(termIndex) == termIndex + 1

\* one child of a Timeout operation
LowerTimeoutChildCountsSkipped(st, text) ==
  IF IsNumericText(text)
  THEN [st EXCEPT
          !.termIndex = TimeoutNextIndex(st.termIndex),
          !.terms = Append(st.terms,
                      [name |-> TermName(st.clauseName, TxtTimeout, st.termIndex),
                       type |-> TxtTimeout, value |-> text])]
  ELSE [st EXCEPT !.termIndex = TimeoutNextIndex(st.termIndex)]
LowerTimeoutChild(st, text) ==
  IF IsNumericText(text)
  THEN [st EXCEPT
          !.termIndex = TimeoutNextIndex(st.termIndex),
          !.terms = Append(st.terms,
                      [name |-> TermName(st.clauseName, TxtTimeout, st.termIndex),
                       type |-> TxtTimeout, value |-> text])]
  ELSE st

\* a Timeout operation: every child in order
RECURSIVE LowerTimeout(_, _)
LowerTimeout(st, kids) ==
  IF kids = <<>> THEN st
  ELSE LowerTimeout(LowerTimeoutChild(st, Head(kids)), Tail(kids))

\* the counter after a MessageContent operation whose result has n Variables
MessageContentNextIndexIfVariables(termIndex, n) ==
  IF n > 0 THEN termIndex + 1 ELSE termIndex
MessageContentNextIndex(termIndex, n) == termIndex + 1

\* the term pushed for a binary comparison
BinaryTermVariablesOnly(name, parameters) ==
  [name |-> name, type |-> TxtMessageContentLower,
   comparator |-> parameters[2].text,
   variables |-> SelectSeq(<<parameters[1], parameters[3]>>, IsVariable)]
BinaryTerm(name, parameters) ==
  [name |-> name, type |-> TxtMessageContentLower,
   comparator |-> parameters[2].text,
   variables |-> <<parameters[1], parameters[3]>>]

\* a MessageContent operation, where parseMessageContent does not throw
LowerMessageContent(st, ch) ==
  LET name == TermName(st.clauseName, TxtMessageContentLower, st.termIndex)
      parameters == parseMessageContent(ch, st.termIndex)
      nvars == Cardinality({ i \in DOMAIN parameters : IsVariable(parameters[i]) })
  IN  IF Len(parameters) = 1
      THEN [st EXCEPT
              !.variables = MergeParameter(st.variables, parameters[1]),
              !.terms = Append(st.terms,
                          [name |-> name, type |-> TxtMessageContentLower,
                           variables |-> parameters]),
              !.termIndex = MessageContentNextIndex(st.termIndex, nvars)]
      ELSE [st EXCEPT
              !.variables = MergeParameter(MergeParameter(st.variables, parameters[1]),
                                           parameters[3]),
              !.terms = Append(st.terms, BinaryTerm(name, parameters)),
              !.termIndex = MessageContentNextIndex(st.termIndex, nvars)]

\* the Clause pushed at the end of a clause's lowering
ClauseOf(st) ==
  [name |-> st.clauseName, type |-> st.clauseType,
   variables |-> MapValues(st.variables), rolePlayer |-> st.rolePlayer,
   operation |-> st.operation, terms |-> st.terms, messages |-> st.messages]

\* clauses.push(clause)
PushClauseFront(cs, clause) == <<clause>> \o cs
PushClause(cs, clause) == Append(cs, clause)

\* the variables of the returned Contract, given the nodes visited
ContractVariablesFromBlocks(nodes) ==
  SelectSeq(nodes, LAMBDA n : n.kind = "variables" /\ n.statements # <<>>)
ContractVariables(nodes) == <<>>

----------------------------------------------------------------------------
(* The locals of one call of parse(), and its steps as functions of them.  *)

\* before parse() is entered
Idle ==
  [pc |-> "idle", contractName |-> TxtEmpty, beginDate |-> TxtEmpty,
   dueDate |-> TxtEmpty, application |-> TxtEmpty, process |-> TxtEmpty,
   clauses |-> <<>>, cur |-> NoClause, result |-> <<>>]

\* parse() is entered: the contract name is read and the locals are created
StepCall(st, node) ==
  [st EXCEPT !.pc = "contract", !.contractName = OrEmpty(node.id)]

\* an exception leaves parse(): nothing is returned
Failed(st) == [st EXCEPT !.pc = "failed", !.cur = NoClause]

\* a contract-level variables-block: traversed, nothing is assigned
StepVariables(st, node) == st

\* a child of the contract that is none of the four blocks
StepOther(st, node) == st

\* the last text of a sequence of datetime children, or the value so far
LastOr(texts, old) == IF texts = <<>> THEN old ELSE texts[Len(texts)]

\* a dates-block: the datetime children of its begin-date and due-date children
StepDates(st, node) ==
  [st EXCEPT !.beginDate = LastOr(node.begin, @), !.dueDate = LastOr(node.due, @)]

\* the parties of a parties-block in order, up to the first that throws
RECURSIVE StepParties(_, _)
StepParties(st, parties) ==
  IF parties = <<>> \/ st.pc = "failed" THEN st
  ELSE LET p == Head(parties)
           next == IF ChildThrows(p.ch, 2) THEN Failed(st)
                   ELSE IF p.role = "application"
                   THEN [st EXCEPT !.application = OrEmpty(ChildText(p.ch, 2))]
                   ELSE [st EXCEPT !.process = OrEmpty(ChildText(p.ch, 2))]
       IN  StepParties(next, Tail(parties))

\* a clauses-block is entered, and left after its last child
StepEnterClauses(st, node) == [st EXCEPT !.pc = "clauses"]
StepLeaveClauses(st, node) == [st EXCEPT !.pc = "contract"]

\* a clause node: its kind, name and role player are read, its locals created
StepBeginClause(c, st, node) ==
  IF node.id = Undefined \/ ~node.hasRole \/ ChildThrows(node.role, 2)
  THEN Failed(st)
  ELSE [st EXCEPT !.pc = "clause",
                  !.cur = NewClause(c, OrEmpty(ChildText(node.ch, 0)), node.id,
                                    ChildText(node.role, 2))]

\* an on-breach child of the clause
StepOnBreach(st, node) ==
  IF ChildThrows(node.ch, 4) THEN Failed(st)
  ELSE [st EXCEPT !.cur.messages.error = OrEmpty(ChildText(node.ch, 4))]

\* a Timeout operation of a term of the clause
StepTimeout(st, node) == [st EXCEPT !.cur = LowerTimeout(@, node.ch.kids)]

\* a MessageContent operation of a term of the clause
StepMessageContent(st, node) ==
  IF parseMessageContentThrows(node.ch) THEN Failed(st)
  ELSE [st EXCEPT !.cur = LowerMessageContent(@, node.ch)]

\* the last child of the clause has been visited: the Clause is pushed
StepEndClause(st, node) ==
  [st EXCEPT !.pc = "clauses", !.clauses = PushClause(@, ClauseOf(st.cur)),
             !.cur = NoClause]

\* the last child of the contract has been visited: the Contract is returned
StepReturn(st, nodes) ==
  [st EXCEPT !.pc = "done",
             !.result = << [name |-> st.contractName, beginDate |-> st.beginDate,
                            dueDate |-> st.dueDate, application |-> st.application,
                            process |-> st.process,
                            variables |-> ContractVariables(nodes),
                            clauses |-> st.clauses] >>]

\* the position at which the traversal reaches a node of each kind
PcOf(kind) ==
  CASE kind = "contract" -> "idle"
    [] kind \in {"variables", "other", "dates", "parties", "clauses"} -> "contract"
    [] kind \in {"clause", "endClauses"} -> "clauses"
    [] OTHER -> "clause"

\* the step of call c at a node
Step(c, st, node) ==
  CASE node.kind = "contract" -> StepCall(st, node)
    [] node.kind = "variables" -> StepVariables(st, node)
    [] node.kind = "other" -> StepOther(st, node)
    [] node.kind = "dates" -> StepDates(st, node)
    [] node.kind = "parties" -> StepParties(st, node.parties)
    [] node.kind = "clauses" -> StepEnterClauses(st, node)
    [] node.kind = "endClauses" -> StepLeaveClauses(st, node)
    [] node.kind = "clause" -> StepBeginClause(c, st, node)
    [] node.kind = "onBreach" -> StepOnBreach(st, node)
    [] node.kind = "timeout" -> StepTimeout(st, node)
    [] node.kind = "messageContent" -> StepMessageContent(st, node)
    [] node.kind = "endClause" -> StepEndClause(st, node)

----------------------------------------------------------------------------
(* The generated sample chaincode (discount-coupon-late-delivery): values. *)

\* a nil error
NoError == "nil"
\* the zero time.Time
ZeroTime == 0
\* no transaction has returned yet
NoReply == [op |-> "", assetId |-> "", id |-> "", ok |-> FALSE, err |-> NoError]
\* a nil *Asset
NilAsset == [nil |-> TRUE]
\* the zero Request
ZeroRequest == [clientId |-> "", createdAt |-> ZeroTime]

isParty(id, asset) ==
  IF id = asset.Parties.Process.Id \/ id = asset.Parties.Application.Id
  THEN NoError
  ELSE "only the process or the application can execute this operation"

isSigned(party) ==
  IF party.IsSigned THEN "the asset is already signed" ELSE NoError

assetIsSignedAlways(asset) == NoError
assetIsSigned(asset) ==
  IF asset.IsSigned THEN NoError ELSE "asset is not signed"

\* t is time.Now()
isBetweenBeginDateAndDueDate(asset, t) ==
  IF asset.DueDate < t
  THEN "asset expired. The current date is after the due date"
  ELSE IF asset.BeginDate > t
  THEN "the current date is before the start date"
  ELSE NoError

isApplicationIdValid(id) ==
  IF id = "" THEN "application id is required" ELSE NoError

isProcessIdValid(id) ==
  IF id = "" THEN "process id is required" ELSE NoError

isBeginDateValid(beginDate) ==
  IF beginDate = ZeroTime THEN "begin date is required" ELSE NoError

isDueDateValid(dueDate) ==
  IF dueDate = ZeroTime THEN "due date is required" ELSE NoError

isDueDateGreaterThanBeginDate(beginDate, dueDate) ==
  IF beginDate > dueDate THEN "begin date greater than due date" ELSE NoError

\* time.Parse(time.RFC3339, date): a date text is well-formed and denotes an
\* instant, or is malformed
string2Time(date) ==
  IF date.rfc3339
  THEN [time |-> date.instant, err |-> NoError]
  ELSE [time |-> ZeroTime, err |-> "invalid date. Expected format 2006-01-02T15:04:05Z07:00"]

\* json.Marshal(asset): the fields of Request are unexported and are dropped
Marshal(asset) ==
  [asset EXCEPT !.Requests = [i \in DOMAIN @ |-> ZeroRequest]]
\* json.Unmarshal(contractAsBytes, asset)
Unmarshal(bytes) == bytes

\* ctx.GetStub().PutState(assetId, contractAsBytes)
PutState(l, assetId, bytes) ==
  [k \in DOMAIN l \cup {assetId} |-> IF k = assetId THEN bytes ELSE l[k]]

putState(l, assetId, asset) == PutState(l, assetId, Marshal(asset))

QueryAsset(l, assetId) ==
  IF assetId \notin DOMAIN l
  THEN [asset |-> NilAsset, err |-> "asset does not exist"]
  ELSE [asset |-> Unmarshal(l[assetId]), err |-> NoError]

\* the client identity of the transaction, absent when the context has none
NoIdentity == "<nil>"
QueryClientId(client) ==
  IF client = NoIdentity
  THEN [id |-> "", err |-> "failed to get client identity"]
  ELSE [id |-> client, err |-> NoError]

----------------------------------------------------------------------------
(* The state: the locals of every call, and the nodes each has visited.    *)

Running(c) == call[c].pc \in {"contract", "clauses", "clause"}

\* a step of call c while another call is in progress marks both as overlapped
Overlap(c) ==
  overlapped' = [d \in DOMAIN overlapped |->
                   \/ overlapped[d]
                   \/ /\ \E e \in DOMAIN call : e # c /\ Running(e)
                      /\ (d = c \/ Running(d))]

InitFor(calls) ==
  /\ call = [c \in calls |-> Idle]
  /\ tree = [c \in calls |-> <<>>]
  /\ overlapped = [c \in calls |-> FALSE]
  /\ ledger = <<>>
  /\ now = 1
  /\ reply = NoReply

\* call c visits the next node of its tree
Visit(c, node) ==
  /\ call[c].pc = PcOf(node.kind)
  /\ call' = [call EXCEPT ![c] = Step(c, @, node)]
  /\ tree' = [tree EXCEPT ![c] = Append(@, node)]
  /\ Overlap(c)
  /\ UNCHANGED <<ledger, now, reply>>

Call(c, node) == node.kind = "contract" /\ Visit(c, node)
VisitVariables(c, node) == node.kind = "variables" /\ Visit(c, node)
VisitOther(c, node) == node.kind = "other" /\ Visit(c, node)
VisitDates(c, node) == node.kind = "dates" /\ Visit(c, node)
VisitParties(c, node) == node.kind = "parties" /\ Visit(c, node)
EnterClauses(c, node) == node.kind = "clauses" /\ Visit(c, node)
LeaveClauses(c, node) == node.kind = "endClauses" /\ Visit(c, node)
BeginClause(c, node) == node.kind = "clause" /\ Visit(c, node)
VisitOnBreach(c, node) == node.kind = "onBreach" /\ Visit(c, node)
VisitTimeout(c, node) == node.kind = "timeout" /\ Visit(c, node)
VisitMessageContent(c, node) == node.kind = "messageContent" /\ Visit(c, node)
EndClause(c, node) == node.kind = "endClause" /\ Visit(c, node)

Return(c) ==
  /\ call[c].pc = "contract"
  /\ call' = [call EXCEPT ![c] = StepReturn(@, tree[c])]
  /\ Overlap(c)
  /\ UNCHANGED <<tree, ledger, now, reply>>

----------------------------------------------------------------------------
(* The generated sample chaincode: transactions.                           *)

\* what the transaction op on assetId returns: the error, with the string Init
\* returns or the boolean ClauseRightRequestDelivery returns
Returned(op, assetId, id, ok, err) ==
  [op |-> op, assetId |-> assetId, id |-> id, ok |-> ok, err |-> err]

\* the first error of the validations of Init, in their order
InitError(assetRequest) ==
  LET begin == string2Time(assetRequest.BeginDate)
      due == string2Time(assetRequest.DueDate)
  IN  IF begin.err # NoError THEN begin.err
      ELSE IF due.err # NoError THEN due.err
      ELSE IF isBeginDateValid(begin.time) # NoError THEN isBeginDateValid(begin.time)
      ELSE IF isDueDateValid(due.time) # NoError THEN isDueDateValid(due.time)
      ELSE IF isDueDateGreaterThanBeginDate(begin.time, due.time) # NoError
      THEN isDueDateGreaterThanBeginDate(begin.time, due.time)
      ELSE IF isApplicationIdValid(assetRequest.Parties.Process.Id) # NoError
      THEN isApplicationIdValid(assetRequest.Parties.Process.Id)
      ELSE isProcessIdValid(assetRequest.Parties.Process.Id)

\* the asset Init builds from a valid request at time t
NewAsset(assetRequest, t) ==
  [Parties |->
     [Application |-> [Id |-> assetRequest.Parties.Application.Id,
                       Name |-> assetRequest.Parties.Application.Name,
                       IsSigned |-> FALSE, SignatureDate |-> ZeroTime],
      Process |-> [Id |-> assetRequest.Parties.Process.Id,
                   Name |-> assetRequest.Parties.Process.Name,
                   IsSigned |-> FALSE, SignatureDate |-> ZeroTime]],
   BeginDate |-> string2Time(assetRequest.BeginDate).time,
   DueDate |-> string2Time(assetRequest.DueDate).time,
   IsSigned |-> FALSE,
   CreatedAt |-> t,
   Requests |-> <<>>]

\* SmartContract.Init; uuid.New() is an asset id not yet on the ledger
SmartContractInit(assetRequest, assetId) ==
  /\ IF InitError(assetRequest) # NoError
     THEN /\ reply' = Returned("Init", "", "", FALSE, InitError(assetRequest))
          /\ UNCHANGED ledger
     ELSE /\ assetId \notin DOMAIN ledger
          /\ ledger' = putState(ledger, assetId, NewAsset(assetRequest, now))
          /\ reply' = Returned("Init", assetId, assetId, FALSE, NoError)
  /\ UNCHANGED <<now, call, tree, overlapped>>

\* asset.IsSigned as Sign recomputes it
BothSignedEither(asset) ==
  asset.Parties.Application.IsSigned \/ asset.Parties.Process.IsSigned
BothSigned(asset) ==
  asset.Parties.Application.IsSigned /\ asset.Parties.Process.IsSigned

\* the party signs at time t
SignParty(party, t) == [party EXCEPT !.IsSigned = TRUE, !.SignatureDate = t]

\* SmartContract.Sign after the asset is read: the error returned, or the asset
\* to store
SignAsset(asset, id, t) ==
  LET isApplication == asset.Parties.Application.Id = id
      isProcess == asset.Parties.Process.Id = id
      signed1 == IF isApplication
                 THEN [asset EXCEPT !.Parties.Application = SignParty(@, t)]
                 ELSE asset
      signed2 == IF isProcess
                 THEN [signed1 EXCEPT !.Parties.Process = SignParty(@, t)]
                 ELSE signed1
  IN  IF isParty(id, asset) # NoError
      THEN [err |-> isParty(id, asset), asset |-> asset]
      ELSE IF isBetweenBeginDateAndDueDate(asset, t) # NoError
      THEN [err |-> isBetweenBeginDateAndDueDate(asset, t), asset |-> asset]
      ELSE IF isApplication /\ isSigned(asset.Parties.Application) # NoError
      THEN [err |-> isSigned(asset.Parties.Application), asset |-> asset]
      ELSE IF isProcess /\ isSigned(asset.Parties.Process) # NoError
      THEN [err |-> isSigned(asset.Parties.Process), asset |-> asset]
      ELSE [err |-> NoError,
            asset |-> [signed2 EXCEPT !.IsSigned = BothSigned(signed2)]]

\* SmartContract.Sign
SmartContractSign(client, assetId) ==
  LET who == QueryClientId(client)
      found == QueryAsset(ledger, assetId)
  IN  /\ IF who.err # NoError
         THEN reply' = Returned("Sign", assetId, "", FALSE, who.err) /\ UNCHANGED ledger
         ELSE IF found.err # NoError
         THEN reply' = Returned("Sign", assetId, "", FALSE, found.err) /\ UNCHANGED ledger
         ELSE LET signed == SignAsset(found.asset, who.id, now)
              IN  IF signed.err # NoError
                  THEN reply' = Returned("Sign", assetId, "", FALSE, signed.err) /\ UNCHANGED ledger
                  ELSE /\ ledger' = putState(ledger, assetId, signed.asset)
                       /\ reply' = Returned("Sign", assetId, "", FALSE, NoError)
      /\ UNCHANGED <<now, call, tree, overlapped>>

\* the requirements of the clause on the arguments of a request
isValid(args) ==
  args.NumberOfAddresses = 1 /\ args.Weight = 100 /\ args.ProductValue < 20000

\* the error of ClauseRightRequestDelivery before anything is written
RequestError(found, client, t) ==
  IF found.err # NoError THEN found.err
  ELSE IF isBetweenBeginDateAndDueDate(found.asset, t) # NoError
  THEN isBetweenBeginDateAndDueDate(found.asset, t)
  ELSE IF assetIsSigned(found.asset) # NoError THEN assetIsSigned(found.asset)
  ELSE QueryClientId(client).err

\* asset.Requests[id] = Request{...}; uuid.New() is a key not yet in the map
AddRequest(asset, clientId, createdAt) ==
  [asset EXCEPT !.Requests = Append(@, [clientId |-> clientId, createdAt |-> createdAt])]

\* SmartContract.ClauseRightRequestDelivery.  When the arguments do not meet
\* the requirements the request has been put on the stub before the error is
\* returned: committed says whether the write reaches the ledger (a peer drops
\* the writes of a transaction that returned an error, a stub that applies
\* writes at once keeps them).
ClauseRightRequestDelivery(client, assetId, args, committed) ==
  LET found == QueryAsset(ledger, assetId)
      err == RequestError(found, client, now)
      written == putState(ledger, assetId,
                          AddRequest(found.asset, QueryClientId(client).id, now))
  IN  /\ IF err # NoError
         THEN reply' = Returned("ClauseRightRequestDelivery", assetId, "", FALSE, err)
              /\ UNCHANGED ledger
         ELSE IF ~isValid(args)
         THEN /\ reply' = Returned("ClauseRightRequestDelivery", assetId, "", FALSE,
                                   "Request operation did not meet all requirements")
              /\ ledger' = IF committed THEN written ELSE ledger
         ELSE /\ reply' = Returned("ClauseRightRequestDelivery", assetId, "", TRUE, NoError)
              /\ ledger' = written
      /\ UNCHANGED <<now, call, tree, overlapped>>

\* time passes
Tick ==
  /\ now' = now + 1
  /\ UNCHANGED <<ledger, reply, call, tree, overlapped>>

----------------------------------------------------------------------------
(* The syntax-tree nodes the calls are given.                              *)

TxtX == <<"x">>
TxtFive == <<"5">>
TxtQuotedA == <<"\"", "a", "\"">>
TxtEq == <<"=", "=">>
TxtNe == <<"!", "=">>
TxtGt == <<">">>
TxtOpen == <<"(">>
TxtClose == <<")">>
TxtAssign == <<"=">>
TxtRight == <<"r","i","g","h","t">>
TxtObligation == <<"O","B","L","I","G","A","T","I","O","N">>
TxtPay == <<"p","a","y">>
TxtShip == <<"s","h","i","p">>
TxtApplication == <<"a","p","p","l","i","c","a","t","i","o","n">>
TxtProcess == <<"p","r","o","c","e","s","s">>
TxtRolePlayer == <<"r","o","l","e","P","l","a","y","e","r">>
TxtOnBreach == <<"o","n","B","r","e","a","c","h">>
TxtLog == <<"l","o","g">>
TxtContractId == <<"c">>
TxtBegin == <<"2","0","2","4">>
TxtDue == <<"2","0","2","5">>
TxtAppId == <<"\"", "s", "\"">>
TxtProcId == <<"\"", "t", "\"">>

ContractNode(id) == [kind |-> "contract", id |-> id]
VariablesNode(statements) == [kind |-> "variables", statements |-> statements]
DatesNode(begin, due) == [kind |-> "dates", begin |-> begin, due |-> due]
PartyNode(role, ch) == [role |-> role, ch |-> ch]
PartiesNode(parties) == [kind |-> "parties", parties |-> parties]
OtherNode == [kind |-> "other"]
ClausesNode == [kind |-> "clauses"]
EndClausesNode == [kind |-> "endClauses"]
ClauseNode(ch, id, hasRole, role) ==
  [kind |-> "clause", ch |-> ch, id |-> id, hasRole |-> hasRole, role |-> role]
OnBreachNode(ch) == [kind |-> "onBreach", ch |-> ch]
TimeoutNode(operand) ==
  [kind |-> "timeout", ch |-> Children(<<TxtTimeout, TxtOpen, operand, TxtClose>>)]
PresenceNode(path) ==
  [kind |-> "messageContent",
   ch |-> Children(<<TxtMessageContentUpper, TxtOpen, path, TxtClose>>)]
BinaryNode(left, comparator, right) ==
  [kind |-> "messageContent",
   ch |-> Children(<<TxtMessageContentUpper, TxtOpen, left, comparator, right, TxtClose>>)]
TruncatedMessageContentNode ==
  [kind |-> "messageContent", ch |-> Children(<<TxtMessageContentUpper, TxtOpen, TxtClose>>)]
EndClauseNode == [kind |-> "endClause"]

RoleChildren(role) == Children(<<TxtRolePlayer, TxtAssign, role>>)
PartyChildren(role, id) == Children(<<role, TxtAssign, id>>)

ContractNodes == { ContractNode(TxtContractId), ContractNode(Undefined) }
VariablesNodes ==
  { VariablesNode(<<>>),
    VariablesNode(<< [isTerm |-> TRUE, isMessageContent |-> TRUE] >>) }
DatesNodes == { DatesNode(<<TxtBegin>>, <<TxtDue>>) }
PartiesNodes ==
  { PartiesNode(<< PartyNode("application", PartyChildren(TxtApplication, TxtAppId)),
                   PartyNode("process", PartyChildren(TxtProcess, TxtProcId)) >>),
    PartiesNode(<< PartyNode("application", NoChildren) >>),
    PartiesNode(<< PartyNode("application", Children(<<TxtApplication, TxtAssign>>)) >>) }
ClauseNodes ==
  { ClauseNode(Children(<<TxtRight, TxtPay>>), TxtPay, TRUE, RoleChildren(TxtApplication)),
    ClauseNode(Children(<<TxtObligation, TxtShip>>), TxtShip, TRUE, RoleChildren(TxtProcess)),
    ClauseNode(Children(<<TxtRight>>), Undefined, TRUE, RoleChildren(TxtApplication)),
    ClauseNode(Children(<<TxtRight, TxtPay>>), TxtPay, TRUE,
               Children(<<TxtRolePlayer, TxtAssign>>)) }
OnBreachNodes ==
  { OnBreachNode(Children(<<TxtOnBreach, TxtOpen, TxtLog, TxtOpen, TxtQuotedA,
                            TxtClose, TxtClose>>)) }
Operands == { TxtFive, TxtX, TxtQuotedA }
Comparators == { TxtEq, TxtNe, TxtGt }
TimeoutNodes == { TimeoutNode(TxtFive), TimeoutNode(TxtX) }
MessageContentNodes ==
  { PresenceNode(TxtQuotedA), TruncatedMessageContentNode }
  \cup { BinaryNode(l, op, r) : l \in Operands, op \in Comparators, r \in Operands }

IsOperation(node) == node.kind \in {"timeout", "messageContent"}
IsCounted(node) ==
  node.kind \in {"variables", "dates", "parties", "other", "clauses", "clause",
                 "onBreach", "timeout", "messageContent"}
\* the nodes visited by call c that count against the bounds
NodeCount(c) == Len(SelectSeq(tree[c], IsCounted))
OpCount(c) == Len(SelectSeq(tree[c], IsOperation))

----------------------------------------------------------------------------
(* Spec: one call on every tree within the bounds.                         *)

Init == InitFor({1})

Next ==
  \E c \in {1} :
    \/ Call(c, ContractNode(TxtContractId))
    \/ NodeCount(c) < MaxNodes /\ \E n \in VariablesNodes : VisitVariables(c, n)
    \/ NodeCount(c) < MaxNodes /\ VisitOther(c, OtherNode)
    \/ NodeCount(c) < MaxNodes /\ \E n \in DatesNodes : VisitDates(c, n)
    \/ NodeCount(c) < MaxNodes /\ \E n \in PartiesNodes : VisitParties(c, n)
    \/ NodeCount(c) < MaxNodes /\ EnterClauses(c, ClausesNode)
    \/ LeaveClauses(c, EndClausesNode)
    \/ NodeCount(c) < MaxNodes /\ \E n \in ClauseNodes : BeginClause(c, n)
    \/ NodeCount(c) < MaxNodes /\ \E n \in OnBreachNodes : VisitOnBreach(c, n)
    \/ NodeCount(c) < MaxNodes /\ OpCount(c) < MaxOps
         /\ \E n \in TimeoutNodes : VisitTimeout(c, n)
    \/ NodeCount(c) < MaxNodes /\ OpCount(c) < MaxOps
         /\ \E n \in MessageContentNodes : VisitMessageContent(c, n)
    \/ EndClause(c, EndClauseNode)
    \/ Return(c)

Spec == Init /\ [][Next]_vars

----------------------------------------------------------------------------
(* SpecLong: one call on one long clause of message conditions.            *)

KindCount(c, kind) == Len(SelectSeq(tree[c], LAMBDA n : n.kind = kind))

LongClauseNode ==
  ClauseNode(Children(<<TxtRight, TxtPay>>), TxtPay, TRUE, RoleChildren(TxtApplication))
LongOperationNodes == { PresenceNode(TxtQuotedA), BinaryNode(TxtQuotedA, TxtEq, TxtQuotedA) }

InitLong == InitFor({1})

NextLong ==
  \E c \in {1} :
    \/ \E n \in ContractNodes : Call(c, n)
    \/ KindCount(c, "clauses") = 0 /\ EnterClauses(c, ClausesNode)
    \/ KindCount(c, "clause") = 0 /\ BeginClause(c, LongClauseNode)
    \/ OpCount(c) < MaxLongOps /\ \E n \in LongOperationNodes : VisitMessageContent(c, n)
    \/ EndClause(c, EndClauseNode)
    \/ LeaveClauses(c, EndClausesNode)
    \/ Return(c)

SpecLong == InitLong /\ [][NextLong]_vars

----------------------------------------------------------------------------
(* SpecPar: several calls whose steps interleave.                          *)

ParCalls == 1 .. NPar
ParClauseNode == LongClauseNode
ParMessageContentNodes == { BinaryNode(TxtX, TxtEq, TxtQuotedA) }

InitPar == InitFor(ParCalls)

NextPar ==
  \E c \in ParCalls :
    \/ Call(c, ContractNode(TxtContractId))
    \/ KindCount(c, "clauses") = 0 /\ EnterClauses(c, ClausesNode)
    \/ NodeCount(c) < MaxParNodes /\ BeginClause(c, ParClauseNode)
    \/ NodeCount(c) < MaxParNodes
         /\ \E n \in ParMessageContentNodes : VisitMessageContent(c, n)
    \/ EndClause(c, EndClauseNode)
    \/ LeaveClauses(c, EndClausesNode)
    \/ Return(c)

SpecPar == InitPar /\ [][NextPar]_vars

----------------------------------------------------------------------------
(* What the properties speak about.                                        *)

Last(s) == s[Len(s)]

\* the operation nodes a call has visited in the clause it is lowering
OpsOfCurrentClause(nodes) ==
  LET starts == { i \in DOMAIN nodes : nodes[i].kind = "clause" }
      start == CHOOSE i \in starts : \A j \in starts : j <= i
  IN  SelectSeq(SubSeq(nodes, start + 1, Len(nodes)), IsOperation)

IsTimeoutTerm(t) == t.type = TxtTimeout
IsMessageContentTerm(t) == t.type = TxtMessageContentLower
IsMessageContentNode(n) == n.kind = "messageContent"
IsSkippedTimeoutNode(n) ==
  n.kind = "timeout" /\ \A k \in DOMAIN n.ch.kids : ~IsNumericText(n.ch.kids[k])
IsLiteralLiteralNode(n) ==
  /\ n.kind = "messageContent" /\ Len(n.ch.kids) = 6
  /\ IsNumericText(n.ch.kids[3]) /\ IsNumericText(n.ch.kids[5])

\* every list of terms of call c: of the clause being lowered, of the Clauses
\* pushed so far
TermLists(c) ==
  {call[c].cur.terms} \cup { call[c].clauses[k].terms : k \in DOMAIN call[c].clauses }

\* the Variables of a term, in operand order
VariablesOfTerm(t) ==
  IF "variables" \in DOMAIN t THEN SelectSeq(t.variables, IsVariable) ELSE <<>>

RECURSIVE VariablesOfTerms(_)
VariablesOfTerms(terms) ==
  IF terms = <<>> THEN <<>>
  ELSE VariablesOfTerm(Head(terms)) \o VariablesOfTerms(Tail(terms))

NoDuplicateCamel(variables) ==
  \A i, j \in DOMAIN variables :
    i # j => variables[i].name.camel # variables[j].name.camel

----------------------------------------------------------------------------
(* C1 *)

TermIndexCounts(st, nodes) ==
  st.cur.termIndex =
    Len(SelectSeq(st.cur.terms, IsTimeoutTerm))
      + Len(SelectSeq(OpsOfCurrentClause(nodes), IsMessageContentNode))

\* C1: while a clause is lowered, its term counter equals the number of Timeout
\* terms emitted plus the number of MessageContent operations visited; a Timeout
\* operation with no numeric operand emits no term and leaves the counter
\* unchanged, and a MessageContent operation advances it by exactly one.
C1_TermIndexCount ==
  [][ \A c \in DOMAIN call :
        call'[c].pc = "clause" =>
          /\ TermIndexCounts(call'[c], tree'[c])
          /\ (call[c].pc = "clause" /\ tree'[c] # tree[c]) =>
               LET n == Last(tree'[c])
               IN  /\ IsSkippedTimeoutNode(n) =>
                        /\ call'[c].cur.terms = call[c].cur.terms
                        /\ call'[c].cur.termIndex = call[c].cur.termIndex
                   /\ IsMessageContentNode(n) =>
                        call'[c].cur.termIndex = call[c].cur.termIndex + 1 ]_vars

\* a clause that met a skipped Timeout and a literal/literal comparison
C1_Witness ==
  \E c \in DOMAIN call :
    /\ call[c].pc = "clause"
    /\ \E i, j \in DOMAIN OpsOfCurrentClause(tree[c]) :
         /\ IsSkippedTimeoutNode(OpsOfCurrentClause(tree[c])[i])
         /\ IsLiteralLiteralNode(OpsOfCurrentClause(tree[c])[j])
    /\ call[c].cur.termIndex = 1

----------------------------------------------------------------------------
(* C2 *)

TermNamesDistinct(terms) ==
  \A i, j \in DOMAIN terms :
    i # j => /\ terms[i].name.pascal # terms[j].name.pascal
             /\ terms[i].name.camel # terms[j].name.camel
             /\ terms[i].name.snake # terms[j].name.snake

\* C2: within one clause no two Terms have the same generated name, in any of
\* the pascal, camel and snake renderings.
C2_TermNamesUnique ==
  \A c \in DOMAIN call : \A terms \in TermLists(c) : TermNamesDistinct(terms)

\* a pushed Clause whose terms are a Timeout followed by a MessageContent
C2_Witness ==
  \E c \in DOMAIN call : \E k \in DOMAIN call[c].clauses :
    LET terms == call[c].clauses[k].terms
    IN  Len(terms) = 2 /\ IsTimeoutTerm(terms[1]) /\ IsMessageContentTerm(terms[2])

----------------------------------------------------------------------------
(* C3 *)

\* C3 as claimed: clause.variables has no two entries of one camel name, and
\* as a set of Variables (name and type) it equals the union of the Variables
\* of the clause's terms.
C3_VariablesEqualUnion ==
  \A c \in DOMAIN call : \A k \in DOMAIN call[c].clauses :
    LET cl == call[c].clauses[k]
    IN  /\ NoDuplicateCamel(cl.variables)
        /\ Range(cl.variables) = Range(VariablesOfTerms(cl.terms))

\* C3 amended: clause.variables has no two entries of one camel name, every
\* entry is a Variable of some term, and every Variable of every term has its
\* camel name in clause.variables, the entry being the Variable (name and
\* type) of the last operand that produced that name.
C3_VariablesLastOccurrence ==
  \A c \in DOMAIN call : \A k \in DOMAIN call[c].clauses :
    LET cl == call[c].clauses[k]
        found == VariablesOfTerms(cl.terms)
    IN  /\ NoDuplicateCamel(cl.variables)
        /\ Range(cl.variables) \subseteq Range(found)
        /\ \A i \in DOMAIN found :
             \E e \in DOMAIN cl.variables :
               /\ cl.variables[e].name.camel = found[i].name.camel
               /\ (\A j \in DOMAIN found :
                     j > i => found[j].name.camel # found[i].name.camel)
                  => cl.variables[e] = found[i]

\* a Clause two of whose terms produced the Variable x with different types
C3_Witness ==
  \E c \in DOMAIN call : \E k \in DOMAIN call[c].clauses :
    LET cl == call[c].clauses[k]
        found == VariablesOfTerms(cl.terms)
    IN  /\ \E i, j \in DOMAIN found :
             /\ i < j
             /\ found[i].name.camel = TxtX /\ found[j].name.camel = TxtX
             /\ found[i].type = "TEXT" /\ found[j].type = "NUMBER"
        /\ \E e \in DOMAIN cl.variables :
             cl.variables[e].name.camel = TxtX /\ cl.variables[e].type = "NUMBER"

----------------------------------------------------------------------------
(* C4 *)

MessageContentTerms(c) ==
  UNION { { terms[i] : i \in { j \in DOMAIN terms : IsMessageContentTerm(terms[j]) } }
          : terms \in TermLists(c) }

\* C4: every Variable of a MessageContent term has type TEXT when the term's
\* comparator is == or !=, type NUMBER when it has any other comparator, and
\* the single Variable of a presence-check (no comparator) has type boolean.
C4_TypeFromComparator ==
  \A c \in DOMAIN call : \A t \in MessageContentTerms(c) :
    LET vs == VariablesOfTerm(t)
    IN  IF "comparator" \in DOMAIN t
        THEN \A i \in DOMAIN vs :
               vs[i].type = IF t.comparator \in {TxtEq, TxtNe} THEN "TEXT" ELSE "NUMBER"
        ELSE Len(vs) = 1 /\ vs[1].type = "boolean"

\* a clause with a != comparison holding a Variable and a > comparison holding one
C4_Witness ==
  \E c \in DOMAIN call : \E t, u \in MessageContentTerms(c) :
    /\ "comparator" \in DOMAIN t /\ t.comparator = TxtNe /\ VariablesOfTerm(t) # <<>>
    /\ "comparator" \in DOMAIN u /\ u.comparator = TxtGt /\ VariablesOfTerm(u) # <<>>

----------------------------------------------------------------------------
(* C5 *)

\* C5 as claimed: a MessageContent term has exactly one Variable and no
\* comparator when it is a presence-check, exactly two Variables and a
\* comparator when it is a binary comparison.
C5_OneOrTwoVariables ==
  \A c \in DOMAIN call : \A t \in MessageContentTerms(c) :
    IF "comparator" \in DOMAIN t
    THEN Len(t.variables) = 2 /\ \A i \in DOMAIN t.variables : IsVariable(t.variables[i])
    ELSE Len(t.variables) = 1 /\ IsVariable(t.variables[1])

\* C5 amended: a presence-check term has exactly one Variable and no
\* comparator; a binary comparison term has the comparator and exactly two
\* operand entries, in operand order, where the entry of a numeric literal
\* operand is its raw text and the entry of any other operand is a Variable.
C5_OneVariableOrTwoOperands ==
  \A c \in DOMAIN call :
    call[c].pc = "clause" =>
      LET nodes == SelectSeq(OpsOfCurrentClause(tree[c]), IsMessageContentNode)
          terms == SelectSeq(call[c].cur.terms, IsMessageContentTerm)
      IN  /\ Len(terms) = Len(nodes)
          /\ \A i \in DOMAIN nodes :
               LET kids == nodes[i].ch.kids
                   t == terms[i]
               IN  IF Len(kids) = 4
                   THEN /\ "comparator" \notin DOMAIN t
                        /\ Len(t.variables) = 1 /\ IsVariable(t.variables[1])
                   ELSE /\ "comparator" \in DOMAIN t /\ t.comparator = kids[4]
                        /\ Len(t.variables) = 2
                        /\ \A slot \in {1, 2} :
                             IF IsNumericText(kids[2 * slot + 1])
                             THEN t.variables[slot] = StringItem(kids[2 * slot + 1])
                             ELSE IsVariable(t.variables[slot])

\* a clause with a comparison of a variable reference with a numeric literal
\* and a comparison of two numeric literals
C5_Witness ==
  \E c \in DOMAIN call :
    /\ call[c].pc = "clause"
    /\ \E i, j \in DOMAIN call[c].cur.terms :
         LET t == call[c].cur.terms[i]
             u == call[c].cur.terms[j]
         IN  /\ IsMessageContentTerm(t) /\ IsMessageContentTerm(u)
             /\ "comparator" \in DOMAIN t /\ Len(VariablesOfTerm(t)) = 1
             /\ "comparator" \in DOMAIN u /\ Len(VariablesOfTerm(u)) = 0

----------------------------------------------------------------------------
(* C6 *)

\* the origins (position of the term among the MessageContent terms, operand
\* slot; slot 0 for a presence-check) of the Variables synthesized for the
\* MessageContent operations of the clause being lowered
SynthesizedOrigins(nodes) ==
  { o \in (DOMAIN nodes) \X {0, 1, 2} :
      LET kids == nodes[o[1]].ch.kids
      IN  IF Len(kids) = 4 THEN o[2] = 0
          ELSE /\ o[2] # 0
               /\ ~IsNumericText(kids[2 * o[2] + 1])
               /\ StartsWithQuote(kids[2 * o[2] + 1]) }

\* the Variable the term at an origin carries for it
SynthesizedAt(terms, o) ==
  IF o[2] = 0 THEN terms[o[1]].variables[1] ELSE terms[o[1]].variables[o[2]]

\* C6: within one clause the Variables synthesized for distinct (term, operand
\* slot) origins have pairwise distinct camel names, so none overwrites another
\* in the clause's variable record.
C6_SynthesizedNamesDistinct ==
  \A c \in DOMAIN call :
    call[c].pc = "clause" =>
      LET nodes == SelectSeq(OpsOfCurrentClause(tree[c]), IsMessageContentNode)
          terms == SelectSeq(call[c].cur.terms, IsMessageContentTerm)
      IN  \A o1, o2 \in SynthesizedOrigins(nodes) :
            o1 # o2 =>
              SynthesizedAt(terms, o1).name.camel # SynthesizedAt(terms, o2).name.camel

----------------------------------------------------------------------------
(* C7 *)

Done(c) == call[c].pc = "done"
HasTerm(c) ==
  \E k \in DOMAIN call[c].result[1].clauses : call[c].result[1].clauses[k].terms # <<>>

----------------------------------------------------------------------------
(* C8 *)

ClauseNodesOf(nodes) == SelectSeq(nodes, LAMBDA n : n.kind = "clause")

\* C8: the returned Contract has exactly one Clause per clause node visited
\* under the clauses-blocks, the i-th Clause being that of the i-th clause node.
C8_ClausesInOrder ==
  \A c \in DOMAIN call :
    Done(c) =>
      LET nodes == ClauseNodesOf(tree[c])
          cls == call[c].result[1].clauses
      IN  /\ Len(cls) = Len(nodes)
          /\ \A i \in DOMAIN nodes :
               /\ cls[i].type = nodes[i].ch.kids[1]
               /\ cls[i].name.snake = nodes[i].ch.kids[1] \o TxtUnderscore \o nodes[i].id
               /\ cls[i].rolePlayer = nodes[i].role.kids[3]

\* a returned Contract with two Clauses of different names
C8_Witness ==
  \E c \in DOMAIN call :
    /\ Done(c)
    /\ Len(call[c].result[1].clauses) = 2
    /\ call[c].result[1].clauses[1].name # call[c].result[1].clauses[2].name

----------------------------------------------------------------------------
(* C9 *)

\* the locals of a call that visits the nodes alone, from entry on
RECURSIVE Run(_, _, _)
Run(c, st, nodes) ==
  IF nodes = <<>> THEN st ELSE Run(c, Step(c, st, Head(nodes)), Tail(nodes))

RunAlone(c, nodes) == StepReturn(Run(c, Idle, nodes), nodes)

----------------------------------------------------------------------------
(* C10 *)

\* C10: no call fails at a contract-level variables-block, and the returned
\* Contract's variables are the empty sequence.
C10_VariablesBlockIgnored ==
  \A c \in DOMAIN call :
    /\ call[c].pc = "failed" => Last(tree[c]).kind # "variables"
    /\ Done(c) => call[c].result[1].variables = <<>>

\* a returned Contract whose tree has a variables-block with a statement
C10_Witness ==
  \E c \in DOMAIN call :
    /\ Done(c)
    /\ \E i \in DOMAIN tree[c] :
         tree[c][i].kind = "variables" /\ tree[c][i].statements # <<>>

----------------------------------------------------------------------------
(* C11 *)

\* what the claim says of the operand in a slot of a binary message condition
\* analysed at term index i, given the entry the emitted term carries for it
OperandAsClaimed(entry, kids, i, slot) ==
  LET text == kids[2 * slot + 1]
      type == IF kids[4] \in {TxtEq, TxtNe} THEN "TEXT" ELSE "NUMBER"
  IN  IF IsNumericText(text)
      THEN entry = [text |-> text]
      ELSE /\ IsVariable(entry)
           /\ entry.type = type
           /\ entry.name.camel =
                IF ~StartsWithQuote(text) THEN text
                ELSE TxtMessageContentLower \o NumberToText(i) \o NumberToText(slot)

\* C11: each operand of a binary message condition analysed at term index i
\* yields, independently of the other operand, its raw text when the text is
\* numeric, else a Variable named by the raw text when it does not begin with a
\* quote, else the anonymous Variable messageContent<i>1 (left) or
\* messageContent<i>2 (right); every Variable has the comparator-inferred type.
C11_OperandRule ==
  [][ \A c \in DOMAIN call :
        (/\ call[c].pc = "clause" /\ call'[c].pc = "clause"
         /\ tree'[c] # tree[c]
         /\ IsMessageContentNode(Last(tree'[c]))
         /\ Len(Last(tree'[c]).ch.kids) = 6)
        => LET kids == Last(tree'[c]).ch.kids
               i == call[c].cur.termIndex
               t == Last(call'[c].cur.terms)
           IN  /\ Len(call'[c].cur.terms) = Len(call[c].cur.terms) + 1
               /\ Len(t.variables) = 2
               /\ \A slot \in {1, 2} : OperandAsClaimed(t.variables[slot], kids, i, slot) ]_vars

\* a clause whose term of index 1 compares the variable reference x, by >, with
\* a quoted literal
C11_Witness ==
  \E c \in DOMAIN call :
    /\ call[c].pc = "clause"
    /\ Len(call[c].cur.terms) = 2
    /\ IsMessageContentTerm(call[c].cur.terms[2])
    /\ "comparator" \in DOMAIN call[c].cur.terms[2]
    /\ call[c].cur.terms[2].variables[1] = VariableItem(ReferenceName(TxtX), "NUMBER")
    /\ IsVariable(call[c].cur.terms[2].variables[2])
    /\ call[c].cur.terms[2].variables[2].name.camel
         = TxtMessageContentLower \o <<"1", "2">>

----------------------------------------------------------------------------
(* C12 *)

\* the positions in the operand list found at which the camel name occurs
OccurrencesOf(found, camel) == { i \in DOMAIN found : found[i].name.camel = camel }
Least(S) == CHOOSE i \in S : \A j \in S : i <= j
Greatest(S) == CHOOSE i \in S : \A j \in S : i >= j

\* C12: a Variable produced more than once under one camel name has a single
\* entry in clause.variables, at the position of its first discovery and with
\* the value (type included) of its last occurrence; the entries of
\* clause.variables are in first-discovery order.
C12_FirstPositionLastValue ==
  \A c \in DOMAIN call : \A k \in DOMAIN call[c].clauses :
    LET cl == call[c].clauses[k]
        found == VariablesOfTerms(cl.terms)
        camels == { found[i].name.camel : i \in DOMAIN found }
        First(e) == Least(OccurrencesOf(found, cl.variables[e].name.camel))
    IN  /\ Len(cl.variables) = Cardinality(camels)
        /\ \A e \in DOMAIN cl.variables :
             /\ cl.variables[e].name.camel \in camels
             /\ cl.variables[e]
                  = found[Greatest(OccurrencesOf(found, cl.variables[e].name.camel))]
        /\ \A e, f \in DOMAIN cl.variables : e < f => First(e) < First(f)

\* a Clause whose first term produced x:TEXT and then an anonymous Variable and
\* whose second term produced x:NUMBER: x stays first and is NUMBER
C12_Witness ==
  \E c \in DOMAIN call : \E k \in DOMAIN call[c].clauses :
    LET cl == call[c].clauses[k]
    IN  /\ VariablesOfTerms(cl.terms)
             = << VariableItem(ReferenceName(TxtX), "TEXT"),
                  VariableItem(AnonymousName(0, 2), "TEXT"),
                  VariableItem(ReferenceName(TxtX), "NUMBER") >>
        /\ cl.variables = << VariableItem(ReferenceName(TxtX), "NUMBER"),
                             VariableItem(AnonymousName(0, 2), "TEXT") >>

----------------------------------------------------------------------------
(* C13 *)

\* the child at position k (from 0) of a node is missing
ChildMissing(ch, k) == ~ch.defined \/ Len(ch.kids) < k + 1

\* a node one of whose positionally read sub-structures is missing: the
\* identifier child of an application or process node, the name identifier or
\* the role player's operand of a clause, the message child of an on-breach
MissingSubstructure(node) ==
  \/ /\ node.kind = "parties"
     /\ \E i \in DOMAIN node.parties : ChildMissing(node.parties[i].ch, 2)
  \/ /\ node.kind = "clause"
     /\ \/ node.id = Undefined
        \/ ~node.hasRole
        \/ ChildMissing(node.role, 2)
  \/ /\ node.kind = "onBreach"
     /\ ChildMissing(node.ch, 4)

\* C13: as soon as a node with a missing positionally read sub-structure is
\* visited the call has failed and no Contract is returned, neither one with
\* the field defaulted nor a partial one.
C13_MissingSubstructureFails ==
  \A c \in DOMAIN call :
    (\E i \in DOMAIN tree[c] : MissingSubstructure(tree[c][i]))
    => call[c].pc = "failed" /\ call[c].result = <<>>

----------------------------------------------------------------------------
(* SpecChaincode: transactions on the generated sample chaincode.          *)

AssetIds == {"asset1"}
PartyIds == {"", "a", "p"}
Clients == {"a", "p", "z", NoIdentity}
Malformed == [rfc3339 |-> FALSE, instant |-> ZeroTime]
DateTexts == {Malformed} \cup { [rfc3339 |-> TRUE, instant |-> t] : t \in 0 .. MaxTime }
AssetRequests ==
  { [BeginDate |-> b, DueDate |-> d,
     Parties |-> [Application |-> [Name |-> "application", Id |-> a],
                  Process |-> [Name |-> "process", Id |-> p]]]
    : b \in DateTexts, d \in DateTexts, a \in PartyIds, p \in PartyIds }
RequestArgs ==
  { [NumberOfAddresses |-> n, Weight |-> 100, ProductValue |-> 0] : n \in {1, 2} }

RequestCount(assetId) ==
  IF assetId \in DOMAIN ledger THEN Len(ledger[assetId].Requests) ELSE 0

InitChaincode == InitFor({})

NextChaincode ==
  \/ now < MaxTime /\ Tick
  \/ \E r \in AssetRequests, k \in AssetIds : SmartContractInit(r, k)
  \/ \E c \in Clients, k \in AssetIds \cup {"unknown"} : SmartContractSign(c, k)
  \/ \E c \in Clients, k \in AssetIds \cup {"unknown"}, args \in RequestArgs,
        committed \in BOOLEAN :
       /\ RequestCount(k) < MaxRequests
       /\ ClauseRightRequestDelivery(c, k, args, committed)

SpecChaincode == InitChaincode /\ [][NextChaincode]_vars

----------------------------------------------------------------------------
(* SpecMix: one call on several clauses, each a mix of numeric Timeouts,    *)
(* skipped Timeouts and message conditions.                                *)

MixClauseNodes ==
  { ClauseNode(Children(<<TxtRight, TxtPay>>), TxtPay, TRUE, RoleChildren(TxtApplication)) }
MixTimeoutNodes == { TimeoutNode(TxtFive), TimeoutNode(TxtX) }
MixMessageContentNodes == { PresenceNode(TxtQuotedA), BinaryNode(TxtFive, TxtGt, TxtFive) }

MixCount(c) == KindCount(c, "clause") + OpCount(c)

InitMix == InitFor({1})

NextMix ==
  \E c \in {1} :
    \/ Call(c, ContractNode(TxtContractId))
    \/ KindCount(c, "clauses") = 0 /\ EnterClauses(c, ClausesNode)
    \/ MixCount(c) < MaxMixNodes
         /\ \E n \in MixClauseNodes : BeginClause(c, n)
    \/ MixCount(c) < MaxMixNodes
         /\ \E n \in MixTimeoutNodes : VisitTimeout(c, n)
    \/ MixCount(c) < MaxMixNodes
         /\ \E n \in MixMessageContentNodes : VisitMessageContent(c, n)
    \/ EndClause(c, EndClauseNode)
    \/ LeaveClauses(c, EndClausesNode)
    \/ Return(c)

SpecMix == InitMix /\ [][NextMix]_vars

----------------------------------------------------------------------------
(* C14 *)

\* the text ends with the decimal rendering of k, not preceded by a digit
EndsWithIndex(text, k) ==
  LET d == NumberToText(k)
      n == Len(text) - Len(d)
  IN  /\ n >= 1
      /\ SubSeq(text, n + 1, Len(text)) = d
      /\ text[n] \notin Range(DigitChars)

\* C14: the k-th element (from 0) of the terms of every clause carries the
\* index k in the pascal, camel and snake renderings of its name, whatever
\* numeric Timeouts, skipped Timeouts and MessageContents the clause holds.
C14_TermIndexIsPosition ==
  \A c \in DOMAIN call : \A terms \in TermLists(c) : \A k \in DOMAIN terms :
    /\ EndsWithIndex(terms[k].name.pascal, k - 1)
    /\ EndsWithIndex(terms[k].name.camel, k - 1)
    /\ EndsWithIndex(terms[k].name.snake, k - 1)

\* a second Clause lowered from a skipped Timeout followed by a presence check,
\* after a first Clause of one term: its only term carries index 0
C14_Witness ==
  \E c \in DOMAIN call :
    /\ Len(call[c].clauses) = 2
    /\ Len(call[c].clauses[1].terms) = 1
    /\ Len(call[c].clauses[2].terms) = 1
    /\ OpsOfCurrentClause(tree[c]) = << TimeoutNode(TxtX), PresenceNode(TxtQuotedA) >>
    /\ EndsWithIndex(call[c].clauses[2].terms[1].name.snake, 0)

----------------------------------------------------------------------------
(* C15 *)

\* C15: after any sequence of Init, Sign and ClauseRightRequestDelivery
\* transactions, failed ones included, the IsSigned flag of every stored asset
\* is true exactly when the IsSigned flags of its application and of its
\* process are both true.
C15_SignedIffBothParties ==
  \A k \in DOMAIN ledger :
    ledger[k].IsSigned
      <=> (ledger[k].Parties.Application.IsSigned /\ ledger[k].Parties.Process.IsSigned)

\* an asset signed by one of two distinct parties and not signed as a whole,
\* after a failed request for delivery
C15_WitnessOneParty ==
  \E k \in DOMAIN ledger :
    /\ ledger[k].Parties.Application.Id # ledger[k].Parties.Process.Id
    /\ ledger[k].Parties.Application.IsSigned
    /\ ~ledger[k].Parties.Process.IsSigned
    /\ ~ledger[k].IsSigned
    /\ reply.op = "ClauseRightRequestDelivery"

\* an asset signed by its application and then by its process, as a whole too,
\* with a request recorded
C15_Witness ==
  \E k \in DOMAIN ledger :
    /\ ledger[k].Parties.Application.Id # ledger[k].Parties.Process.Id
    /\ ledger[k].Parties.Application.IsSigned
    /\ ledger[k].Parties.Process.IsSigned
    /\ ledger[k].Parties.Application.SignatureDate < ledger[k].Parties.Process.SignatureDate
    /\ ledger[k].IsSigned
    /\ ledger[k].Requests # <<>>

----------------------------------------------------------------------------
(* C16 *)

\* the asset is signed by both parties and t lies between its dates
SignedAndInWindow(asset, t) ==
  /\ asset.Parties.Application.IsSigned /\ asset.Parties.Process.IsSigned
  /\ asset.IsSigned
  /\ asset.BeginDate <= t /\ t <= asset.DueDate

\* the step is a transaction ClauseRightRequestDelivery
IsRequestStep ==
  /\ now' = now
  /\ <<ledger, reply>>' # <<ledger, reply>>
  /\ reply'.op = "ClauseRightRequestDelivery"

\* C16: a request is recorded on an asset, and ClauseRightRequestDelivery
\* returns true, only when the asset is signed by both parties and the current
\* time lies between its BeginDate and DueDate; a call on an asset not signed
\* by both or outside the window returns an error and writes nothing.
C16_RequestOnlySignedInWindow ==
  [][ /\ \A k \in DOMAIN ledger' :
           (k \in DOMAIN ledger /\ Len(ledger'[k].Requests) > Len(ledger[k].Requests))
           => IsRequestStep /\ reply'.assetId = k /\ SignedAndInWindow(ledger[k], now)
      /\ IsRequestStep
         => LET k == reply'.assetId
            IN  /\ reply'.ok
                   => /\ k \in DOMAIN ledger
                      /\ SignedAndInWindow(ledger[k], now)
                      /\ Len(ledger'[k].Requests) = Len(ledger[k].Requests) + 1
                /\ (k \in DOMAIN ledger /\ ~SignedAndInWindow(ledger[k], now))
                   => /\ ~reply'.ok
                      /\ reply'.err # NoError
                      /\ ledger' = ledger ]_vars

\* a request was recorded and true returned on an asset whose window has not
\* yet begun at the first instant
C16_Witness ==
  /\ reply.op = "ClauseRightRequestDelivery"
  /\ reply.ok
  /\ reply.assetId \in DOMAIN ledger
  /\ ledger[reply.assetId].Requests # <<>>
  /\ ledger[reply.assetId].BeginDate > 1

\* a request on an asset signed by one party only was refused
C16_WitnessRefused ==
  /\ reply.op = "ClauseRightRequestDelivery"
  /\ reply.err = "asset is not signed"
  /\ reply.assetId \in DOMAIN ledger
  /\ ledger[reply.assetId].Parties.Application.IsSigned

----------------------------------------------------------------------------
(* C17 *)

\* C17: Init stores an asset only for a request whose application id and
\* process id are both non-empty: no stored asset has an empty party id.
C17_InitRequiresBothIds ==
  \A k \in DOMAIN ledger :
    /\ ledger[k].Parties.Application.Id # ""
    /\ ledger[k].Parties.Process.Id # ""

====
